---- MODULE Spec2Model ----
(***************************************************************************)
(* A model of fancyimpute's MICE solver (src/fancyimpute/MICE.py): one     *)
(* MICE object is constructed and complete(X) is called on it, which runs  *)
(* multiple_imputations(X): validation, get_visit_indices, the optional    *)
(* column of ones, initialize, n_burn_in + n_imputations calls of          *)
(* perform_imputation_round, and the averaging of the sampled rounds.      *)
(*                                                                         *)
(* Floats are modelled as exact rationals <<num, den>> with den > 0, and   *)
(* NaN as <<0, 0>>.  Matrices are functions row -> column -> float with    *)
(* the source's 0-based indices.  The regression model (fit, predict,      *)
(* predict_dist), the correlation weights and numpy's random source are    *)
(* outside the file: every value they decide is a nondeterministic choice  *)
(* among the outcomes the calling code allows.                             *)
(***************************************************************************)
EXTENDS Integers, Sequences, FiniteSets, TLC

\* ---------------------------------------------------------------- bounds
\* rows and columns of the input matrices
NRows == 3
NCols == 3
\* the most missing cells an input matrix has
MaxMissing == 1
\* the largest n_imputations and n_burn_in a MICE object is built with
MaxImputations == 2
MaxBurnIn == 1

\* ------------------------------------------------------ program constants
\* n_nearest_columns=np.infty, the default (larger than any column count)
Infty == 1000000
\* n_pmm_neighbors=5, the default
DefaultPmmNeighbors == 5

\* ------------------------------------------------------------------ floats
Flt(v) == <<v, 1>>
NaN == <<0, 0>>
isnan(x) == x[2] = 0

Abs(n) == IF n < 0 THEN -n ELSE n

RECURSIVE GCD(_, _)
GCD(a, b) == IF b = 0 THEN a ELSE GCD(b, a % b)

\* the rational n/d in lowest terms (d > 0), 0/0 being NaN
Rational(n, d) ==
    IF d = 0 THEN NaN
    ELSE LET g == GCD(Abs(n), d) IN <<n \div g, d \div g>>

FloatAdd(a, b) ==
    IF isnan(a) \/ isnan(b) THEN NaN
    ELSE Rational(a[1] * b[2] + b[1] * a[2], a[2] * b[2])

\* a / n for a count n; numpy's mean of no values is 0/0 = NaN
FloatDivide(a, n) ==
    IF isnan(a) THEN NaN ELSE Rational(a[1], a[2] * n)

\* -------------------------------------------------------------- sequences
Range(s) == {s[i] : i \in DOMAIN s}

Reverse(s) == [i \in 1..Len(s) |-> s[Len(s) + 1 - i]]

\* the ascending sequence of a finite set of integers
RECURSIVE SortedSeq(_)
SortedSeq(S) ==
    IF S = {} THEN <<>>
    ELSE LET lo == CHOOSE x \in S : \A y \in S : x <= y
         IN <<lo>> \o SortedSeq(S \ {lo})

\* the sequences of n distinct elements of S
InjectiveSeqs(S, n) ==
    {s \in [1..n -> S] : \A i, j \in 1..n : i # j => s[i] # s[j]}

Perms(S) == InjectiveSeqs(S, Cardinality(S))

Min(a, b) == IF a <= b THEN a ELSE b

\* --------------------------------------------------------------- matrices
RowsOf(M) == DOMAIN M
ColsOf(M) == DOMAIN M[0]
n_rows_of(M) == Cardinality(RowsOf(M))
n_cols_of(M) == Cardinality(ColsOf(M))

\* np.column_stack((M, column)): one more column, at index n_cols
column_stack(M, v) ==
    LET C == n_cols_of(M)
    IN [r \in RowsOf(M) |-> [c \in 0..C |-> IF c = C THEN v ELSE M[r][c]]]

\* M[:, :-1]
ChopLastColumn(M) ==
    LET C == n_cols_of(M)
    IN [r \in RowsOf(M) |-> [c \in 0..(C - 2) |-> M[r][c]]]

\* missing_mask.sum(axis=0)[c]
ColumnSum(mask, c) == Cardinality({r \in RowsOf(mask) : mask[r][c]})

\* the number of true cells of mask at or before (r, c) in row-major order
Rank(mask, r, c) ==
    Cardinality({p \in RowsOf(mask) \X ColsOf(mask) :
                    /\ mask[p[1]][p[2]]
                    /\ \/ p[1] < r
                       \/ p[1] = r /\ p[2] <= c})

\* the row-major sequence of the cells of mask that are true
TrueCells(mask) ==
    LET C == n_cols_of(mask)
        R == n_rows_of(mask)
        F[i \in 0..(R * C)] ==
            IF i = 0 THEN <<>>
            ELSE LET r == (i - 1) \div C
                     c == (i - 1) % C
                 IN IF mask[r][c] THEN Append(F[i - 1], <<r, c>>) ELSE F[i - 1]
    IN F[R * C]

\* M[mask]: boolean indexing reads the selected cells in row-major order
MaskSelect(M, mask) ==
    LET cells == TrueCells(mask)
    IN [i \in 1..Len(cells) |-> M[cells[i][1]][cells[i][2]]]

\* M[mask] = vals: the i-th selected cell, in row-major order, gets vals[i]
MaskAssign(M, mask, vals) ==
    [r \in RowsOf(M) |-> [c \in ColsOf(M) |->
        IF mask[r][c] THEN vals[Rank(mask, r, c)] ELSE M[r][c]]]

\* the rows of column c where mask is true, ascending
MaskedRows(mask, c) == SortedSeq({r \in RowsOf(mask) : mask[r][c]})

\* M[rows, c]
ColumnValues(M, rows, c) == [i \in 1..Len(rows) |-> M[rows[i]][c]]

\* M[rows, c] = vals
ColumnAssign(M, rows, c, vals) ==
    [r \in RowsOf(M) |-> [cc \in ColsOf(M) |->
        IF cc = c /\ \E i \in 1..Len(rows) : rows[i] = r
        THEN vals[CHOOSE i \in 1..Len(rows) : rows[i] = r]
        ELSE M[r][cc]]]

\* ~mask
Not(mask) == [r \in RowsOf(mask) |-> [c \in ColsOf(mask) |-> ~mask[r][c]]]

\* np.isnan(M)
IsNanMask(M) == [r \in RowsOf(M) |-> [c \in ColsOf(M) |-> isnan(M[r][c])]]

\* ------------------------------------------------------------- the inputs
\* the observed value of cell (r, c): distinct in every cell, so that a value
\* tells which cell it came from
ObservedValue(r, c) == 10 * (c + 1) + r

\* the matrices of n_rows x n_cols whose NaN cells are those of S
Matrix(n_rows, n_cols, S) ==
    [r \in 0..(n_rows - 1) |-> [c \in 0..(n_cols - 1) |->
        IF <<r, c>> \in S THEN NaN ELSE Flt(ObservedValue(r, c))]]

\* the input matrices: NCols columns and up to NRows rows, with missing
\* values, at most MaxMissing cells NaN
Inputs ==
    UNION {{Matrix(n_rows, NCols, S) :
              S \in {T \in SUBSET ((0..(n_rows - 1)) \X (0..(NCols - 1))) :
                        Cardinality(T) \in 1..MaxMissing}} :
           n_rows \in 1..NRows}

\* the values np.random.normal(mus, sqrt(sigmas_squared)) can return: the
\* regression collaborator decides them; none of them is an observed value
PredictiveValues == {Flt(-1), Flt(50)}

\* ----------------------------------------------------- MICE.get_visit_indices
VisitSequences == {"monotone", "roman", "arabic", "revmonotone"}

\* np.arange(n)
arange(n) == [i \in 1..n |-> i - 1]

\* a faulty variant: the indices by non-increasing key
argsort_descending(keys) ==
    {p \in Perms(DOMAIN keys) :
        \A i, j \in 1..Len(p) : i < j => keys[p[i]] >= keys[p[j]]}

\* np.argsort(keys) with the default kind ("quicksort", which is not stable):
\* every ordering of the indices by non-decreasing key
argsort(keys) ==
    {p \in Perms(DOMAIN keys) :
        \A i, j \in 1..Len(p) : i < j => keys[p[i]] <= keys[p[j]]}

\* missing_mask.sum(0)
MissingCounts(mask) == [c \in ColsOf(mask) |-> ColumnSum(mask, c)]

\* a faulty variant: an unrecognized visit_sequence falls back on "roman"
get_visit_indices_lenient(visit_sequence, mask) ==
    LET n_cols == n_cols_of(mask)
    IN CASE visit_sequence = "arabic" -> {Reverse(arange(n_cols))}
         [] visit_sequence = "monotone" ->
              {Reverse(p) : p \in argsort(MissingCounts(mask))}
         [] visit_sequence = "revmonotone" -> argsort(MissingCounts(mask))
         [] OTHER -> {arange(n_cols)}

\* the arrays get_visit_indices can return; none when it raises ValueError
get_visit_indices(visit_sequence, mask) ==
    LET n_cols == n_cols_of(mask)
    IN CASE visit_sequence = "roman" -> {arange(n_cols)}
         [] visit_sequence = "arabic" -> {Reverse(arange(n_cols))}
         [] visit_sequence = "monotone" ->
              {Reverse(p) : p \in argsort(MissingCounts(mask))}
         [] visit_sequence = "revmonotone" -> argsort(MissingCounts(mask))
         [] OTHER -> {}

\* ------------------------------------------- MICE.perform_imputation_round
int(b) == IF b THEN 1 ELSE 0

\* the test of lines 134 and 144
UseNearestColumns(n_cols, add_ones, n_nearest_columns) ==
    n_cols - int(add_ones) > n_nearest_columns

\* s[:-1]
ButLast(s) == SubSeq(s, 1, Len(s) - 1)

\* list(range(0, col_idx)) + list(range(col_idx + 1, n_cols))
OtherCols(col_idx, n_cols) ==
    SortedSeq((0..(n_cols - 1)) \ {col_idx})

\* np.random.choice(a, size, replace=False, p=p): size distinct elements of
\* a, in any order (the weights p, absolute correlations, are the
\* collaborator's numbers: every element can be drawn)
ChoiceWithoutReplacement(a, size) == InjectiveSeqs(Range(a), size)

\* the column indices handed to the model fit as its inputs (line 162)
PredictorColumns(col_idx, n_cols, add_ones, n_nearest_columns) ==
    LET other_cols == OtherCols(col_idx, n_cols)
    IN IF UseNearestColumns(n_cols, add_ones, n_nearest_columns)
       THEN IF add_ones
            THEN {chosen \o ButLast(chosen) :
                    chosen \in ChoiceWithoutReplacement(ButLast(other_cols),
                                                        n_nearest_columns)}
            ELSE ChoiceWithoutReplacement(other_cols, n_nearest_columns)
       ELSE {other_cols}

\* the k-element subsets of S
KSubsets(S, k) == {T \in SUBSET S : Cardinality(T) = k}

\* k of line 177
PmmK(n_pmm_neighbors, n_observed) == Min(n_pmm_neighbors, n_observed - 1)

\* a faulty variant: PMM writes the predictions, not the observed values
PmmPredictions(output, n_missing, n_pmm_neighbors) ==
    [1..n_missing -> PredictiveValues]

\* lines 175-184: the values PMM can write into the n_missing missing cells
\* of a column whose observed cells hold `output`.  NN[i] are the positions
\* (1-based here) of the k observed rows np.argpartition puts first for
\* missing row i, whichever the predictions make them; np.random.choice
\* picks one of them, and raises ValueError when there is none: then no
\* value can be written and the set is empty.
PmmValues(output, n_missing, n_pmm_neighbors) ==
    LET k == PmmK(n_pmm_neighbors, Len(output))
        NNs == [1..n_missing -> KSubsets(1..Len(output), k)]
        Sampled(NN) == {s \in [1..n_missing -> 1..Len(output)] :
                           \A i \in 1..n_missing : s[i] \in NN[i]}
    IN {[i \in 1..n_missing |-> output[NN_sampled[i]]] :
           NN_sampled \in UNION {Sampled(NN) : NN \in NNs}}

\* lines 192-194: the values the posterior predictive draw can write
ColValues(n_missing) == [1..n_missing -> PredictiveValues]

\* lines 138-194: what the round does to one column.  Each outcome is the
\* filled matrix after it, the brr.fit call made (none for a column without
\* missing cells) and the exception raised, "" for none
ImputeColumn(obj, filled, mask, col_idx) ==
    LET missing_rows == MaskedRows(mask, col_idx)
        observed_rows == MaskedRows(Not(mask), col_idx)
        output == ColumnValues(filled, observed_rows, col_idx)
        n_missing == Len(missing_rows)
        Fit(other_cols) == <<[col_idx |-> col_idx, other_cols |-> other_cols]>>
        written == IF obj.impute_type = "pmm"
                   THEN PmmValues(output, n_missing, obj.n_pmm_neighbors)
                   ELSE ColValues(n_missing)
    IN IF n_missing > 0
       THEN UNION {
              IF obj.impute_type \in {"pmm", "col"}
              THEN IF written = {}
                   THEN {[X_filled |-> filled, fits |-> Fit(other_cols),
                          error |-> "ValueError: a must be non-empty"]}
                   ELSE {[X_filled |-> ColumnAssign(filled, missing_rows,
                                                    col_idx, values),
                          fits |-> Fit(other_cols), error |-> ""] :
                            values \in written}
              ELSE {[X_filled |-> filled, fits |-> Fit(other_cols),
                     error |-> ""]} :
              other_cols \in PredictorColumns(col_idx, n_cols_of(filled),
                                 obj.add_ones, obj.n_nearest_columns)}
       ELSE {[X_filled |-> filled, fits |-> <<>>, error |-> ""]}

\* the loop of line 137 from position i of visit_indices on, entered with
\* the outcome `so_far` of the columns before
RECURSIVE ImputeColumnsFrom(_, _, _, _, _)
ImputeColumnsFrom(obj, so_far, mask, visit, i) ==
    IF i > Len(visit) \/ so_far.error # "" THEN {so_far}
    ELSE UNION {ImputeColumnsFrom(obj,
                    [X_filled |-> step.X_filled,
                     fits |-> so_far.fits \o step.fits,
                     error |-> step.error],
                    mask, visit, i + 1) :
                  step \in ImputeColumn(obj, so_far.X_filled, mask,
                                        visit[i])}

\* perform_imputation_round: its outcomes
perform_imputation_round(obj, filled, mask, visit) ==
    ImputeColumnsFrom(obj, [X_filled |-> filled, fits |-> <<>>,
                            error |-> ""], mask, visit, 1)

\* ------------------------------------------------------- MICE.initialize
\* np.random.choice(observed_col, n_missing): n_missing of the observed
\* values, with replacement; none when observed_col is empty (ValueError)
InitialValues(observed_col, n_missing) ==
    [1..n_missing -> Range(observed_col)]

\* lines 204-210: what initialize does to one column
InitializeColumn(filled, mask, col_idx) ==
    LET missing_rows == MaskedRows(mask, col_idx)
        observed_rows == MaskedRows(Not(mask), col_idx)
        observed_col == ColumnValues(filled, observed_rows, col_idx)
        n_missing == Len(missing_rows)
    IN IF n_missing > 0
       THEN IF InitialValues(observed_col, n_missing) = {}
            THEN {[X_filled |-> filled,
                   error |-> "ValueError: a must be non-empty"]}
            ELSE {[X_filled |-> ColumnAssign(filled, missing_rows, col_idx,
                                             random_values),
                   error |-> ""] :
                     random_values \in InitialValues(observed_col, n_missing)}
       ELSE {[X_filled |-> filled, error |-> ""]}

RECURSIVE InitializeFrom(_, _, _, _)
InitializeFrom(so_far, mask, visit, i) ==
    IF i > Len(visit) \/ so_far.error # "" THEN {so_far}
    ELSE UNION {InitializeFrom(step, mask, visit, i + 1) :
                  step \in InitializeColumn(so_far.X_filled, mask, visit[i])}

\* initialize: its outcomes; X_filled starts as a copy of X
initialize(matrix, mask, visit) ==
    InitializeFrom([X_filled |-> matrix, error |-> ""], mask, visit, 1)

\* ------------------------------------------- MICE.multiple_imputations
\* a faulty variant: the first kept round is dropped as well
IsSampledRoundAfter(m, n_burn_in) == m > n_burn_in

\* line 269: whether round m (0-based) is kept
IsSampledRound(m, n_burn_in) == m >= n_burn_in

\* a column with no observed value (the validation collaborator rejects it)
HasAllMissingColumn(mask) ==
    \E c \in ColsOf(mask) : \A r \in RowsOf(mask) : mask[r][c]

\* ------------------------------------------------------------ MICE.complete
RECURSIVE FloatSum(_)
FloatSum(s) == IF Len(s) = 0 THEN Flt(0) ELSE FloatAdd(s[1], FloatSum(Tail(s)))

\* a faulty variant: the last sample instead of the mean of the samples
LastSample(imputed_arrays, n_cells) ==
    IF Len(imputed_arrays) = 0 THEN [j \in 1..n_cells |-> NaN]
    ELSE imputed_arrays[Len(imputed_arrays)]

\* imputed_arrays.mean(axis=0), as the vector assigned to the n_cells
\* selected cells: the mean over the samples of each position, and for no
\* samples the scalar NaN, which the assignment broadcasts
MeanAxis0(imputed_arrays, n_cells) ==
    LET n == Len(imputed_arrays)
    IN IF n = 0 THEN [j \in 1..n_cells |-> NaN]
       ELSE [j \in 1..n_cells |->
               FloatDivide(FloatSum([i \in 1..n |-> imputed_arrays[i][j]]), n)]

\* ------------------------------------------------------------ the arrays
\* numpy arrays are objects: a name is bound to an array, two names can be
\* bound to the same one, and an assignment into an array is seen through
\* every name bound to it.  The arrays of one call, by the place that
\* creates them:
ArrayIds == {"caller", "completed", "stacked", "filled", "none"}

\* X.copy() in complete, line 277: the new array X_completed is bound to
CopyInComplete(source) == "completed"

\* np.column_stack in multiple_imputations, line 246: a new array
StackInMultipleImputations(source) == "stacked"

\* a faulty variant: X_filled = X: no copy, X_filled is the array passed in
NoCopyInInitialize(source) == source

\* X.copy() in initialize, line 201: the new array X_filled is bound to
CopyInInitialize(source) == "filled"

\* ------------------------------------------------------------------ state
VARIABLES
    args,             \* the arguments MICE(...) is constructed with
    self,             \* the MICE object's fields, once constructed
    X,                \* the matrix the caller holds when complete is called
    arrays,           \* the content of every array
    names,            \* the array each of X_completed (complete), X
                      \* (multiple_imputations) and X_filled is bound to
    pc,               \* where the call stands
    error,            \* the exception that ended the call, "" when none
    missing_mask,     \* multiple_imputations: its local missing_mask
    visit_indices,    \* multiple_imputations: visit_indices
    m,                \* multiple_imputations: the round counter
    results_list,     \* multiple_imputations: results_list
    abs_correlation_matrix,  \* whether the last round computed it
    fits,             \* the brr.fit calls of the last round, in order
    rounds,           \* history: X_filled at the end of every round after
                      \* the first n_burn_in rounds
    imputed_arrays    \* complete: what multiple_imputations returned

vars == <<args, self, X, arrays, names, pc, error, missing_mask,
          visit_indices, m, results_list, abs_correlation_matrix, fits,
          rounds, imputed_arrays>>

NoMatrix == [r \in {0} |-> [c \in {0} |-> NaN]]

\* the arrays the names are bound to
X_completed == arrays[names.X_completed]
X_local == arrays[names.X]
X_filled == arrays[names.X_filled]

\* the MICE objects whose arguments are drawn from the given sets
Configurations(visit, imps, burn_in, neighbors, types, ones, nearest) ==
    [visit_sequence : visit, n_imputations : imps,
     n_burn_in : burn_in, n_pmm_neighbors : neighbors,
     impute_type : types, add_ones : ones, n_nearest_columns : nearest]

InitWith(configurations) ==
    /\ args \in configurations
    /\ X \in Inputs
    /\ arrays = [id \in ArrayIds |-> IF id = "caller" THEN X ELSE NoMatrix]
    /\ names = [X_completed |-> "none", X |-> "none", X_filled |-> "none"]
    /\ self = <<>>
    /\ pc = "new"
    /\ error = ""
    /\ missing_mask = NoMatrix
    /\ visit_indices = <<>>
    /\ m = 0
    /\ results_list = <<>>
    /\ abs_correlation_matrix = "unset"
    /\ fits = <<>>
    /\ rounds = <<>>
    /\ imputed_arrays = <<>>

\* ---------------------------------------------------------------- actions
\* MICE.__init__: stores every argument, checks none
Construct ==
    /\ pc = "new"
    /\ self' = args
    /\ pc' = "constructed"
    /\ UNCHANGED <<args, X, arrays, names, error, missing_mask,
                   visit_indices, m, results_list, abs_correlation_matrix,
                   fits, rounds, imputed_arrays>>

\* complete, line 277, and the call of multiple_imputations, lines 240-242:
\* the validation collaborator rejects a matrix with a column that has no
\* observed value
CompleteCall ==
    /\ pc = "constructed"
    /\ LET copy == CopyInComplete("caller")
       IN /\ arrays' = [arrays EXCEPT ![copy] = arrays["caller"]]
          /\ names' = [names EXCEPT !.X_completed = copy, !.X = "caller"]
    /\ missing_mask' = IsNanMask(arrays["caller"])
    /\ IF HasAllMissingColumn(IsNanMask(arrays["caller"]))
       THEN pc' = "raised" /\ error' = "AllMissingColumn"
       ELSE pc' = "validated" /\ error' = error
    /\ UNCHANGED <<args, self, X, visit_indices, m, results_list,
                   abs_correlation_matrix, fits, rounds, imputed_arrays>>

\* multiple_imputations, line 243
GetVisitIndices ==
    /\ pc = "validated"
    /\ LET returned == get_visit_indices(self.visit_sequence, missing_mask)
       IN IF returned = {}
          THEN /\ pc' = "raised"
               /\ error' = "ValueError: Invalid choice for visit order"
               /\ visit_indices' = visit_indices
          ELSE /\ visit_indices' \in returned
               /\ pc' = "visit"
               /\ error' = error
    /\ UNCHANGED <<args, self, X, arrays, names, missing_mask, m,
                   results_list, abs_correlation_matrix, fits, rounds,
                   imputed_arrays>>

\* multiple_imputations, lines 244-259: the column of ones, initialize
Initialize ==
    /\ pc = "visit"
    /\ LET local == IF self.add_ones
                    THEN StackInMultipleImputations(names.X)
                    ELSE names.X
           stacked == IF self.add_ones
                      THEN column_stack(arrays[names.X], Flt(1))
                      ELSE arrays[names.X]
           mask == IF self.add_ones THEN column_stack(missing_mask, FALSE)
                   ELSE missing_mask
           filled == CopyInInitialize(local)
       IN /\ missing_mask' = mask
          /\ names' = [names EXCEPT !.X = local, !.X_filled = filled]
          /\ \E out \in initialize(stacked, mask, visit_indices) :
                /\ arrays' = [[arrays EXCEPT ![local] = stacked]
                                 EXCEPT ![filled] = out.X_filled]
                /\ error' = out.error
                /\ pc' = IF out.error = "" THEN "loop" ELSE "raised"
    /\ results_list' = <<>>
    /\ m' = 0
    /\ UNCHANGED <<args, self, X, visit_indices, abs_correlation_matrix,
                   fits, rounds, imputed_arrays>>

\* multiple_imputations, lines 261-270: one round.  The round writes into
\* the array X_filled is bound to; X_filled[missing_mask] is a new array
Round ==
    /\ pc = "loop"
    /\ m < self.n_burn_in + self.n_imputations
    /\ abs_correlation_matrix' =
          IF UseNearestColumns(n_cols_of(X_filled), self.add_ones,
                               self.n_nearest_columns)
          THEN "computed" ELSE "unset"
    /\ \E out \in perform_imputation_round(self, X_filled, missing_mask,
                                           visit_indices) :
          /\ arrays' = [arrays EXCEPT ![names.X_filled] = out.X_filled]
          /\ fits' = out.fits
          /\ error' = out.error
          /\ IF out.error = ""
             THEN /\ results_list' =
                        IF IsSampledRound(m, self.n_burn_in)
                        THEN Append(results_list,
                                    MaskSelect(out.X_filled, missing_mask))
                        ELSE results_list
                  /\ rounds' = IF m + 1 > self.n_burn_in
                                THEN Append(rounds, out.X_filled)
                                ELSE rounds
                  /\ m' = m + 1
                  /\ pc' = "loop"
             ELSE /\ pc' = "raised"
                  /\ UNCHANGED <<results_list, rounds, m>>
    /\ UNCHANGED <<args, self, X, names, missing_mask, visit_indices,
                   imputed_arrays>>

\* multiple_imputations, lines 271-274
MultipleImputationsReturn ==
    /\ pc = "loop"
    /\ m >= self.n_burn_in + self.n_imputations
    /\ missing_mask' = IF self.add_ones THEN ChopLastColumn(missing_mask)
                       ELSE missing_mask
    /\ imputed_arrays' = results_list
    /\ pc' = "returned"
    /\ UNCHANGED <<args, self, X, arrays, names, error, visit_indices, m,
                   results_list, abs_correlation_matrix, fits, rounds>>

\* complete, lines 280-282
CompleteReturn ==
    /\ pc = "returned"
    /\ LET average_imputated_values ==
               MeanAxis0(imputed_arrays, Len(TrueCells(missing_mask)))
       IN arrays' = [arrays EXCEPT ![names.X_completed] =
                        MaskAssign(X_completed, missing_mask,
                                   average_imputated_values)]
    /\ pc' = "completed"
    /\ UNCHANGED <<args, self, X, names, error, missing_mask,
                   visit_indices, m, results_list, abs_correlation_matrix,
                   fits, rounds, imputed_arrays>>

Next ==
    \/ Construct
    \/ CompleteCall
    \/ GetVisitIndices
    \/ Initialize
    \/ Round
    \/ MultipleImputationsReturn
    \/ CompleteReturn

\* --------------------------------------------------------- specifications
\* the driver: every number of rounds, with and without the column of ones
Init ==
    InitWith(Configurations({"roman"}, 0..MaxImputations, 0..MaxBurnIn,
                            {DefaultPmmNeighbors}, {"col"}, BOOLEAN,
                            {Infty}))

Spec == Init /\ [][Next]_vars

\* the visit orders: every visit_sequence, one not recognized among them
InitVisit ==
    InitWith(Configurations(VisitSequences \cup {"random"}, {1}, {0},
                            {DefaultPmmNeighbors}, {"col"}, BOOLEAN,
                            {Infty}))

SpecVisit == InitVisit /\ [][Next]_vars

\* predictive mean matching, after every number of rounds
InitPmm ==
    InitWith(Configurations({"roman"}, {1}, 0..MaxBurnIn,
                            {1, DefaultPmmNeighbors}, {"pmm"}, BOOLEAN,
                            {Infty}))

SpecPmm == InitPmm /\ [][Next]_vars

\* the nearest columns: every n_nearest_columns, with and without the ones
InitNearest ==
    InitWith(Configurations({"roman"}, {1}, {0}, {DefaultPmmNeighbors},
                            {"col"}, BOOLEAN, (1..NCols) \cup {Infty}))

SpecNearest == InitNearest /\ [][Next]_vars

\* ------------------------------------------------------------------ claims
Called == pc \notin {"new", "constructed"}

\* the cells of the caller's matrix, and the missing ones among them
Cells == RowsOf(X) \X ColsOf(X)
MissingCells == {p \in Cells : isnan(X[p[1]][p[2]])}

\* the observed values of column c of the caller's matrix
ObservedIn(c) == {X[r][c] : r \in {q \in RowsOf(X) : ~isnan(X[q][c])}}

\* C1: when multiple_imputations has returned, the sample collection has
\* exactly n_imputations samples, the returned mask has the shape of the
\* input (no column of ones) and is true exactly at the input's missing
\* cells, and every sample is as long as the number of those cells.
SamplesMatchMissingCells ==
    pc \in {"returned", "completed"} =>
        /\ Len(imputed_arrays) = self.n_imputations
        /\ missing_mask = IsNanMask(X)
        /\ \A i \in 1..Len(imputed_arrays) :
              /\ Len(imputed_arrays[i]) = Cardinality(MissingCells)
              /\ Len(imputed_arrays[i]) = Len(TrueCells(missing_mask))

\* C1 witness: two samples of one missing cell returned after a burn-in
\* round, from a run with the column of ones
SamplesReturned ==
    /\ pc = "returned"
    /\ self.n_imputations = 2
    /\ self.n_burn_in = 1
    /\ self.add_ones
    /\ Len(imputed_arrays) = 2
    /\ Len(imputed_arrays[1]) = 1

\* the mean of the values cell (r, c) of the filled matrix had at the end of
\* the rounds after the burn-in
MeanOverRounds(r, c) ==
    FloatDivide(FloatSum([i \in 1..Len(rounds) |-> rounds[i][r][c]]),
                Len(rounds))

\* C2: with n_imputations >= 1, the matrix complete returns has the input's
\* shape, equals the input at every observed cell and holds at every missing
\* cell the mean of the values that cell of the filled matrix had at the end
\* of rounds n_burn_in+1 .. n_burn_in+n_imputations; the caller's matrix is
\* never modified.
CompleteReturnsMeans ==
    /\ arrays["caller"] = X
    /\ (pc = "completed" /\ self.n_imputations >= 1) =>
          /\ Len(rounds) = self.n_imputations
          /\ RowsOf(X_completed) = RowsOf(X)
          /\ ColsOf(X_completed) = ColsOf(X)
          /\ \A p \in Cells :
                X_completed[p[1]][p[2]] =
                    IF p \in MissingCells THEN MeanOverRounds(p[1], p[2])
                    ELSE X[p[1]][p[2]]

\* C2 witness: complete returned the mean of two different values
MeanOfTwoReturned ==
    /\ pc = "completed"
    /\ self.n_imputations = 2
    /\ self.n_burn_in = 1
    /\ \E p \in MissingCells :
          /\ rounds[1][p[1]][p[2]] # rounds[2][p[1]][p[2]]
          /\ X_completed[p[1]][p[2]] = <<49, 2>>

\* C3: with n_imputations = 0 complete never returns a matrix (it fails with
\* an InsufficientData error).
ZeroImputationsNeverCompletes ==
    (Called /\ self.n_imputations = 0) => pc # "completed"

\* C4, as claimed: no object with an unrecognized visit_sequence is
\* constructed and then reaches a call of complete.
UnrecognizedVisitSequenceNeverCalled ==
    Called => self.visit_sequence \in VisitSequences

\* C4, amended: the constructor accepts an unrecognized visit_sequence; the
\* call rejects it in get_visit_indices, after the validation of the input
\* and before the column of ones, initialize and every round: the call ends
\* with an error, fills nothing, runs no round and returns nothing.
UnrecognizedVisitSequenceRejectedByCall ==
    (pc # "new" /\ self.visit_sequence \notin VisitSequences) =>
        /\ pc \in {"constructed", "validated", "raised"}
        /\ pc = "raised" =>
              error \in {"AllMissingColumn",
                         "ValueError: Invalid choice for visit order"}
        /\ names.X_filled = "none"
        /\ visit_indices = <<>>
        /\ m = 0
        /\ fits = <<>>

\* C4 witness: the call of an object with an unrecognized visit_sequence
\* ended in get_visit_indices' ValueError
UnrecognizedVisitSequenceRaised ==
    /\ pc = "raised"
    /\ self.visit_sequence = "random"
    /\ error = "ValueError: Invalid choice for visit order"

\* the visit order is settled
Visited == pc \in {"visit", "loop", "returned", "completed"}

\* missing_mask.sum(0) of the input
CountOf(c) == ColumnSum(IsNanMask(X), c)

IsPermutationOfColumns(s) ==
    /\ Len(s) = Cardinality(ColsOf(X))
    /\ Range(s) = ColsOf(X)

\* the order of the claim, without its tie-breaking
VisitOrderOf(s) ==
    /\ IsPermutationOfColumns(s)
    /\ self.visit_sequence = "roman" =>
          \A i \in 1..Len(s) : s[i] = i - 1
    /\ self.visit_sequence = "arabic" =>
          \A i \in 1..Len(s) : s[i] = Len(s) - i
    /\ self.visit_sequence = "monotone" =>
          \A i, j \in 1..Len(s) : i < j => CountOf(s[i]) >= CountOf(s[j])
    /\ self.visit_sequence = "revmonotone" =>
          \A i, j \in 1..Len(s) : i < j => CountOf(s[i]) <= CountOf(s[j])

\* columns of equal missing-count appear in ascending index order
TiesAscending(s) ==
    \A i, j \in 1..Len(s) :
        (i < j /\ CountOf(s[i]) = CountOf(s[j])) => s[i] < s[j]

\* C5, as claimed: get_visit_indices returns a permutation of the column
\* indices, roman ascending, arabic its reverse, monotone by non-increasing
\* and revmonotone by non-decreasing missing-count, and in monotone and
\* revmonotone the columns of equal missing-count in ascending index order.
VisitOrderWithStableTies ==
    Visited =>
        /\ VisitOrderOf(visit_indices)
        /\ self.visit_sequence \in {"monotone", "revmonotone"} =>
              TiesAscending(visit_indices)

\* C5, amended: the same, with no order promised among the columns of equal
\* missing-count.
VisitOrderSorted ==
    Visited => VisitOrderOf(visit_indices)

\* C5 witness: a monotone order that puts the column with missing cells
\* first and two columns of equal missing-count in descending index order
MonotoneTieDescending ==
    /\ pc = "visit"
    /\ self.visit_sequence = "monotone"
    /\ Len(visit_indices) = 3
    /\ CountOf(visit_indices[1]) = 1
    /\ visit_indices[2] > visit_indices[3]

\* C6: under impute_type = pmm, once initialized and after every round, each
\* originally missing cell of the filled matrix holds an originally observed
\* value of its column, and each originally observed cell its own value.
PmmKeepsObservedValues ==
    (pc # "new" /\ self.impute_type = "pmm" /\ names.X_filled # "none") =>
        \A p \in Cells :
            IF p \in MissingCells
            THEN X_filled[p[1]][p[2]] \in ObservedIn(p[2])
            ELSE X_filled[p[1]][p[2]] = X[p[1]][p[2]]

\* C6 witness: two PMM rounds have rewritten a missing cell
PmmRoundsDone ==
    /\ pc = "loop"
    /\ self.impute_type = "pmm"
    /\ m = 2
    /\ MissingCells # {}
    /\ Len(fits) = 1

\* C7: when initialize has returned, every non-missing cell of its result
\* equals the cell of the matrix passed in, every missing cell holds one of
\* the values observed in its column of that matrix, and the matrix passed
\* in (the input, with the column of ones when add_ones) is as it was.
InitializeFillsFromObserved ==
    (pc = "loop" /\ m = 0) =>
        LET passed == IF self.add_ones THEN column_stack(X, Flt(1)) ELSE X
        IN /\ X_local = passed
           /\ RowsOf(X_filled) = RowsOf(passed)
           /\ ColsOf(X_filled) = ColsOf(passed)
           /\ \A r \in RowsOf(passed), c \in ColsOf(passed) :
                 IF missing_mask[r][c]
                 THEN X_filled[r][c] \in
                         {passed[q][c] :
                            q \in {q \in RowsOf(passed) : ~missing_mask[q][c]}}
                 ELSE X_filled[r][c] = passed[r][c]

\* C7 witness: initialize has filled a missing cell of a matrix passed in
\* without the column of ones
InitializeReturned ==
    /\ pc = "loop"
    /\ m = 0
    /\ ~self.add_ones
    /\ \E p \in MissingCells : ~isnan(X_filled[p[1]][p[2]])

\* a round has run, so fits and abs_correlation_matrix are that round's
RoundRun == pc \in {"loop", "returned", "completed"} /\ m >= 1

\* C8: with the column of ones and the nearest columns in use, the inputs of
\* every fit of a round are n_nearest_columns distinct columns, none of them
\* the fitted column or the column of ones, plus the column of ones.
FitKeepsColumnOfOnes ==
    (RoundRun /\ self.add_ones /\ abs_correlation_matrix = "computed") =>
        \A i \in 1..Len(fits) :
            LET ones == n_cols_of(X_filled) - 1
                used == Range(fits[i].other_cols)
            IN /\ ones \in used
               /\ fits[i].col_idx \notin used
               /\ Cardinality(used \ {ones}) = self.n_nearest_columns
               /\ Len(fits[i].other_cols) = self.n_nearest_columns + 1

\* C9: in a round run with n_nearest_columns >= the number of predictor
\* columns of a column (the other columns, the column of ones not counted),
\* the correlation matrix is not computed and every fit uses all the other
\* columns.
NearestColumnsOnlyWhenFewer ==
    (RoundRun /\ self.n_nearest_columns >= Cardinality(ColsOf(X)) - 1) =>
        /\ abs_correlation_matrix = "unset"
        /\ \A i \in 1..Len(fits) :
              fits[i].other_cols =
                  OtherCols(fits[i].col_idx, n_cols_of(X_filled))

\* C10: under impute_type = pmm with n_pmm_neighbors >= 1, a round never
\* fails on a column that has a missing and an observed entry: no call
\* ends with the error of a draw from an empty neighbour set.
PmmRoundNeverFails ==
    (pc # "new" /\ self.impute_type = "pmm" /\ self.n_pmm_neighbors >= 1) =>
        ~(pc = "raised" /\ error = "ValueError: a must be non-empty")

====
